---- MODULE Spec2Model ----
(***************************************************************************)
(* Model of archinstall/lib/luks.py: the luks2 session object and its      *)
(* encrypt / unlock / close / format / add_key operations, each driving an *)
(* external cryptsetup process through a prompt-polling loop.              *)
(*                                                                         *)
(* Python values are tagged records [t, v]: t is "None", "str" or "bytes"  *)
(* and v is the sequence of code points (str) or byte values (bytes).      *)
(***************************************************************************)
EXTENDS Integers, Sequences, FiniteSets, TLC

\* ---------------------------------------------------------------- bounds
MaxChildren == 2        \* longest 'children' array lsblk reports
MaxFoundPolls == 2      \* polls that see the prompt are counted up to here
MaxCloses == 2          \* no-argument close() calls in a row are counted up to here

\* ------------------------------------------------------- python values
None == [t |-> "None", v |-> <<>>]
Str(s) == [t |-> "str", v |-> s]
Bytes(s) == [t |-> "bytes", v |-> s]

\* python truthiness of an Optional[str|bytes]: None and empty are falsy
Truthy(x) == x.t # "None" /\ Len(x.v) > 0

CR == 13
LF == 10
SLASH == 47

\* bytes(s, 'UTF-8') for code points below 0x800
RECURSIVE Utf8(_)
Utf8(s) ==
    IF s = <<>> THEN <<>>
    ELSE LET c == Head(s) IN
         (IF c < 128 THEN <<c>> ELSE <<192 + (c \div 64), 128 + (c % 64)>>)
            \o Utf8(Tail(s))

\* if type(password) != bytes: password = bytes(password, 'UTF-8')
ToBytes(x) == IF x.t = "bytes" THEN x ELSE Bytes(Utf8(x.v))

\* bytes.rstrip(b'\r\n'): drop every trailing CR or LF
RECURSIVE RStrip(_)
RStrip(s) ==
    IF s # <<>> /\ s[Len(s)] \in {CR, LF}
    THEN RStrip(SubSeq(s, 1, Len(s) - 1))
    ELSE s

\* ------------------------------------------------------------ input sets
\* passwords a caller may pass: absent, empty, a non-ASCII str, bytes that
\* end in a line feed
PasswordValues == {None, Str(<<>>), Str(<<233>>), Bytes(<<112, LF>>)}

KeyPresent == Str(<<107>>)      \* "k": a key file that exists
KeyMissing == Str(<<120>>)      \* "x": a path with no file behind it
KeyFileValues == {None, KeyPresent, KeyMissing}

\* contents the key file on disk may have: a leading line feed that stays,
\* trailing CR and LF that go
KeyFileContents == {<<LF, 107, CR, LF>>}

\* Python results
PyTrue == [t |-> "bool", v |-> <<1>>]
PyFalse == [t |-> "bool", v |-> <<0>>]
PyBool(b) == IF b THEN PyTrue ELSE PyFalse

\* MapperDev given the mapping's path instead of its name
MapperDev_FullPath(mountpoint) ==
    [t |-> "MapperDev",
     v |-> <<47, 100, 101, 118, 47, 109, 97, 112, 112, 101, 114, 47>> \o mountpoint.v]

\* MapperDev(mountpoint): the mapping known by its name
MapperDev(mountpoint) == [t |-> "MapperDev", v |-> mountpoint.v]

\* mapping names a caller may pass to unlock: "m" and "d/m"
MountpointValues == {Str(<<109>>), Str(<<100, SLASH, 109>>)}

\* exit codes of the external tool: success, a generic failure, busy
BusyExitCode == 256
ExitCodes == {0, 1, BusyExitCode}

\* child entries of the lsblk topology: name and optional mountpoint
ChildOf(i, mounted) ==
    [name |-> <<99, 48 + i>>,
     mountpoint |-> IF mounted THEN Str(<<SLASH, 48 + i>>) ELSE None]

ChildLists ==
    UNION { { [i \in 1..n |-> ChildOf(i, f[i])] : f \in [1..n -> BOOLEAN] }
            : n \in 0..MaxChildren }

VARIABLES
    self_password,   \* self.password
    self_key_file,   \* self.key_file
    mapdev,          \* self.mapdev: None or MapperDev(mapping name)
    files,           \* contents of the key file at path KeyPresent
    links,           \* paths that currently are symbolic links
    pc,              \* position of the caller thread
    op,              \* operation in progress or last finished
    args,            \* arguments of that call
    password,        \* local 'password' once resolved to bytes
    pw_given,        \* local latch pw_given / pw_injected
    cryptworker,     \* the SysCommandWorker the caller polls
    children,        \* devinfo['children'] read during busy recovery
    calls,           \* external commands issued by the current call
    exit_codes,      \* exit codes the caller has read in the current call
    result,          \* outcome of the last finished call
    retval,          \* value returned by the last finished call
    mapdev_before,   \* self.mapdev when the current call started
    closes,          \* no-argument close() calls since the last successful unlock
    failures,        \* teardown commands of the current call that exited non-zero
    volume,          \* passphrase the device was last formatted with, if any
    live             \* external processes of the session that are running

vars == <<self_password, self_key_file, mapdev, files, links, pc, op, args,
          password, pw_given, cryptworker, children, calls, exit_codes,
          result, retval, mapdev_before, closes, failures, volume, live>>

\* ------------------------------------------------------- SysCommandWorker
NoWorker ==
    [kind |-> "none", alive |-> FALSE, prompt |-> FALSE, exit_code |-> -1,
     written |-> <<>>, found_polls |-> 0, wrote_unprompted |-> FALSE,
     wrote_dead |-> FALSE]

\* SysCommandWorker(cmd): a fresh process, running, nothing printed yet
Spawn(kind) == [NoWorker EXCEPT !.kind = kind, !.alive = TRUE]

\* cryptworker.write(data): data is sent to the process's input
WorkerWrite(w, data) ==
    [w EXCEPT !.written = Append(@, data),
              !.wrote_unprompted = @ \/ ~w.prompt,
              !.wrote_dead = @ \/ ~w.alive]

\* one more poll on which the prompt text was found in the output
NoteFound(w) ==
    [w EXCEPT !.found_polls = IF @ < MaxFoundPolls THEN @ + 1 ELSE @]

Call(cmd, arg) == [cmd |-> cmd, arg |-> arg]

Range(f) == { f[i] : i \in DOMAIN f }

DevMapper(name) == <<SLASH, 100, 101, 118, SLASH, 109, 97, 112, 112, 101, 114, SLASH>> \o name

\* pathlib.Path(key_file).exists()
Exists(key_file) == key_file = KeyPresent

\* ------------------------------------------------- credential resolution
\* 'if not password: password = self.password'
PickPassword(pw) == IF ~Truthy(pw) THEN self_password ELSE pw
\* 'if not key_file: key_file = self.key_file'
PickKeyFile(kf) == IF ~Truthy(kf) THEN self_key_file ELSE kf

\* the two AssertionError checks of encrypt() and unlock()
CredentialMissing(pw, kf) ==
    LET p == PickPassword(pw)
        k == PickKeyFile(kf)
    IN \/ ~(Truthy(p) \/ Truthy(k))
       \/ (p = None /\ (k = None \/ ~Exists(k)))

\* the bytes that end up in the local 'password'
ResolvePassword(pw, kf) ==
    LET p == PickPassword(pw)
    IN IF p = None THEN Bytes(RStrip(files)) ELSE ToBytes(p)

\* a session right after luks2(...): nothing unlocked, no call made yet
InitWith(passwords, key_files) ==
    /\ self_password \in passwords
    /\ self_key_file \in key_files
    /\ mapdev = None
    /\ files \in KeyFileContents
    /\ links = {}
    /\ pc = "idle"
    /\ op = "none"
    /\ args = [password |-> None, key_file |-> None, mountpoint |-> None]
    /\ password = None
    /\ pw_given = FALSE
    /\ cryptworker = NoWorker
    /\ children = <<>>
    /\ calls = <<>>
    /\ exit_codes = <<>>
    /\ result = "none"
    /\ retval = None
    /\ mapdev_before = None
    /\ closes = -1
    /\ failures = {}
    /\ volume = None
    /\ live = 0

\* state every call starts from: locals and the per-call records are fresh
Enter(name, a) ==
    /\ pc = "idle"
    /\ op' = name
    /\ args' = a
    /\ mapdev_before' = mapdev
    /\ exit_codes' = <<>>
    /\ children' = <<>>
    /\ failures' = {}
    /\ pw_given' = FALSE

\* the call raises before doing anything else
Raise(err) ==
    /\ pc' = "idle"
    /\ result' = err
    /\ password' = None
    /\ cryptworker' = NoWorker
    /\ calls' = <<>>

\* ---------------------------------------------------------------- encrypt
\* encrypt(): credential resolution, partprobe, launch of luksFormat
EncryptCall(pw, kf) ==
    /\ Enter("encrypt", [password |-> pw, key_file |-> kf, mountpoint |-> None])
    /\ IF CredentialMissing(pw, kf)
       THEN Raise("AssertionError")
       ELSE /\ password' = ResolvePassword(pw, kf)
            /\ calls' = <<Call("partprobe", <<>>), Call("luksFormat", <<>>)>>
            /\ cryptworker' = Spawn("format1")
            /\ pc' = "encrypt_while1"
            /\ result' = "running"
    /\ retval' = None
    /\ closes' = -1
    /\ UNCHANGED <<self_password, self_key_file, mapdev, files, links>>
    /\ live' = IF CredentialMissing(pw, kf) THEN live ELSE live + 1
    /\ volume' = volume

\* EncryptWhile1 that also leaves the loop once the password is written
EncryptWhile1_StopsAtWrite ==
    /\ pc = "encrypt_while1"
    /\ IF cryptworker.alive /\ ~pw_given
       THEN pc' = "encrypt_body1" /\ exit_codes' = exit_codes
       ELSE pc' = "encrypt_exit1" /\ exit_codes' = Append(exit_codes, cryptworker.exit_code)
    /\ UNCHANGED <<self_password, self_key_file, mapdev, files, links, op, args,
                   password, pw_given, cryptworker, children, calls,
                   result, retval, mapdev_before, closes>>
    /\ UNCHANGED <<failures, volume, live>>

\* 'while cryptworker.is_alive():' of the first attempt
EncryptWhile1 ==
    /\ pc = "encrypt_while1"
    /\ IF cryptworker.alive
       THEN pc' = "encrypt_body1" /\ exit_codes' = exit_codes
       ELSE pc' = "encrypt_exit1" /\ exit_codes' = Append(exit_codes, cryptworker.exit_code)
    /\ UNCHANGED <<self_password, self_key_file, mapdev, files, links, op, args,
                   password, pw_given, cryptworker, children, calls,
                   result, retval, mapdev_before, closes>>
    /\ UNCHANGED <<failures, volume, live>>

\* EncryptBody1 without the latch: writes on every poll that finds the prompt
EncryptBody1_NoLatch ==
    /\ pc = "encrypt_body1"
    /\ LET found == cryptworker.prompt
           w == IF found THEN NoteFound(cryptworker) ELSE cryptworker
       IN IF found
          THEN /\ cryptworker' = WorkerWrite(w, password)
               /\ pw_given' = TRUE
          ELSE /\ cryptworker' = w
               /\ pw_given' = pw_given
    /\ pc' = "encrypt_while1"
    /\ UNCHANGED <<self_password, self_key_file, mapdev, files, links, op, args,
                   password, children, calls, exit_codes,
                   result, retval, mapdev_before, closes>>
    /\ UNCHANGED <<failures, volume, live>>

\* loop body of the first attempt: write once when the prompt is found
EncryptBody1 ==
    /\ pc = "encrypt_body1"
    /\ LET found == cryptworker.prompt
           w == IF found THEN NoteFound(cryptworker) ELSE cryptworker
       IN IF found /\ pw_given = FALSE
          THEN /\ cryptworker' = WorkerWrite(w, password)
               /\ pw_given' = TRUE
          ELSE /\ cryptworker' = w
               /\ pw_given' = pw_given
    /\ pc' = "encrypt_while1"
    /\ UNCHANGED <<self_password, self_key_file, mapdev, files, links, op, args,
                   password, children, calls, exit_codes,
                   result, retval, mapdev_before, closes>>
    /\ UNCHANGED <<failures, volume, live>>

\* ChildCalls with the close moved under the mountpoint test
ChildCalls_CloseOnlyMounted(child) ==
    IF Truthy(child.mountpoint)
    THEN <<Call("umount", child.mountpoint.v), Call("close", child.name)>>
    ELSE <<>>

\* commands the recovery issues for one child of the device
ChildCalls(child) ==
    (IF Truthy(child.mountpoint)
     THEN <<Call("umount", child.mountpoint.v)>>
     ELSE <<>>)
    \o <<Call("close", child.name)>>

RECURSIVE ChildrenCalls(_)
ChildrenCalls(cs) ==
    IF cs = <<>> THEN <<>> ELSE ChildCalls(Head(cs)) \o ChildrenCalls(Tail(cs))

\* teardown commands that may exit non-zero: SysCommand runs a command to
\* its end and hands back its exit code, so any of them may fail
TeardownFailures(cs) == SUBSET Range(ChildrenCalls(cs))

\* IssuedCalls that gives up at the first teardown command that failed
IssuedCalls_StopAtFailure(cs, fs) ==
    LET all == ChildrenCalls(cs)
        bad == { i \in DOMAIN all : all[i] \in fs }
    IN IF bad = {} THEN all
       ELSE SubSeq(all, 1, CHOOSE i \in bad : \A k \in bad : i <= k)

\* teardown commands the child loop issues when the commands in fs fail: no
\* exit code is read and nothing is caught, so all of them
IssuedCalls(cs, fs) == ChildrenCalls(cs)

\* RecoveryCalls with the rescan moved behind the child teardown
RecoveryCalls_RescanLast(cs, fs) ==
    <<Call("unmount", <<>>), Call("lsblk", <<>>)>>
        \o IssuedCalls(cs, fs)
        \o <<Call("partprobe", <<>>), Call("luksFormat", <<>>)>>

\* commands of the busy recovery, in the order they are issued
RecoveryCalls(cs, fs) ==
    <<Call("unmount", <<>>), Call("partprobe", <<>>), Call("lsblk", <<>>)>>
        \o IssuedCalls(cs, fs)
        \o <<Call("luksFormat", <<>>)>>

\* IsBusy that takes every failure for a busy device
IsBusy_AnyFailure(code) == code # 0

\* 'if cryptworker.exit_code == 256'
IsBusy(code) == code = BusyExitCode

\* EncryptExitCode with the relaunch repeated: once at the end of the child
\* loop's last pass and once after the loop
EncryptExitCode_RelaunchTwice(cs, fs) ==
    /\ pc = "encrypt_exit1"
    /\ IF IsBusy(cryptworker.exit_code)
       THEN /\ children' = cs
            /\ failures' = fs
            /\ calls' = calls
                 \o <<Call("unmount", <<>>), Call("partprobe", <<>>),
                      Call("lsblk", <<>>)>>
                 \o ChildrenCalls(cs)
                 \o (IF cs # <<>> THEN <<Call("luksFormat", <<>>)>> ELSE <<>>)
                 \o <<Call("luksFormat", <<>>)>>
            /\ cryptworker' = Spawn("format2")
            /\ live' = live + 1
            /\ pw_given' = FALSE
            /\ pc' = "encrypt_while2"
            /\ UNCHANGED <<result, retval>>
       ELSE /\ pc' = "idle"
            /\ result' = IF cryptworker.exit_code > 0 THEN "DiskError" ELSE "return"
            /\ retval' = IF cryptworker.exit_code > 0 THEN None ELSE PyTrue
            /\ UNCHANGED <<children, failures, calls, cryptworker, pw_given, live>>
    /\ UNCHANGED <<self_password, self_key_file, mapdev, files, links, op, args,
                   password, exit_codes, mapdev_before, closes, volume>>

\* exit-code dispatch after the first loop; on the busy code the recovery
\* (unmount, partprobe, lsblk answering with the children cs, per-child
\* teardown of which the commands fs fail) and the relaunch
EncryptExitCode(cs, fs) ==
    /\ pc = "encrypt_exit1"
    /\ IF IsBusy(cryptworker.exit_code)
       THEN /\ children' = cs
            /\ failures' = fs
            /\ calls' = calls \o RecoveryCalls(cs, fs)
            /\ cryptworker' = Spawn("format2")
            /\ live' = live + 1
            /\ pw_given' = FALSE
            /\ pc' = "encrypt_while2"
            /\ UNCHANGED <<result, retval>>
       ELSE /\ pc' = "idle"
            /\ result' = IF cryptworker.exit_code > 0 THEN "DiskError" ELSE "return"
            /\ retval' = IF cryptworker.exit_code > 0 THEN None ELSE PyTrue
            /\ UNCHANGED <<children, failures, calls, cryptworker, pw_given, live>>
    /\ UNCHANGED <<self_password, self_key_file, mapdev, files, links, op, args,
                   password, exit_codes, mapdev_before, closes, volume>>

\* 'while cryptworker.is_alive():' of the retry; falls through to 'return True'
EncryptWhile2 ==
    /\ pc = "encrypt_while2"
    /\ IF cryptworker.alive
       THEN /\ pc' = "encrypt_body2"
            /\ UNCHANGED <<exit_codes, result, retval>>
       ELSE /\ pc' = "idle"
            /\ exit_codes' = Append(exit_codes, cryptworker.exit_code)
            /\ result' = "return"
            /\ retval' = PyTrue
    /\ UNCHANGED <<self_password, self_key_file, mapdev, files, links, op, args,
                   password, pw_given, cryptworker, children, calls,
                   mapdev_before, closes>>
    /\ UNCHANGED <<failures, volume, live>>

\* loop body of the retry: 'if not pw_given: write'
EncryptBody2 ==
    /\ pc = "encrypt_body2"
    /\ LET w == IF cryptworker.prompt THEN NoteFound(cryptworker) ELSE cryptworker
       IN IF ~pw_given
          THEN /\ cryptworker' = WorkerWrite(w, password)
               /\ pw_given' = TRUE
          ELSE /\ cryptworker' = w
               /\ pw_given' = pw_given
    /\ pc' = "encrypt_while2"
    /\ UNCHANGED <<self_password, self_key_file, mapdev, files, links, op, args,
                   password, children, calls, exit_codes,
                   result, retval, mapdev_before, closes>>
    /\ UNCHANGED <<failures, volume, live>>

\* ----------------------------------------------------------------- unlock
\* UnlockExitCode with the mapping recorded whether or not the link is there
UnlockExitCode_NoLinkCheck ==
    /\ pc = "unlock_exit"
    /\ pc' = "idle"
    /\ IF ~(cryptworker.exit_code = 0)
       THEN /\ result' = "DiskError"
            /\ UNCHANGED <<mapdev, retval, closes>>
       ELSE /\ result' = "return"
            /\ mapdev' = [t |-> "MapperDev", v |-> args.mountpoint.v]
            /\ retval' = mapdev'
            /\ closes' = 0
    /\ UNCHANGED <<self_password, self_key_file, files, links, op, args,
                   password, pw_given, cryptworker, children, calls, exit_codes,
                   mapdev_before>>
    /\ UNCHANGED <<failures, volume, live>>

\* 'if '/' in mountpoint: os.path.basename(mountpoint)': the result of
\* basename is dropped, the name goes on as it came
UnlockMountpoint(mountpoint) == mountpoint

\* unlock(): credential resolution and launch of 'cryptsetup open'
UnlockCall(mountpoint, pw, kf) ==
    /\ Enter("unlock", [password |-> pw, key_file |-> kf, mountpoint |-> mountpoint])
    /\ IF CredentialMissing(pw, kf)
       THEN Raise("AssertionError")
       ELSE /\ password' = ResolvePassword(pw, kf)
            /\ calls' = <<Call("open", UnlockMountpoint(mountpoint).v)>>
            /\ cryptworker' = Spawn("open")
            /\ pc' = "unlock_while"
            /\ result' = "running"
    /\ retval' = None
    /\ closes' = -1
    /\ UNCHANGED <<self_password, self_key_file, mapdev, files, links>>
    /\ live' = IF CredentialMissing(pw, kf) THEN live ELSE live + 1
    /\ volume' = volume

\* 'while cryptworker.is_alive():' of unlock
UnlockWhile ==
    /\ pc = "unlock_while"
    /\ IF cryptworker.alive
       THEN pc' = "unlock_body" /\ exit_codes' = exit_codes
       ELSE pc' = "unlock_exit" /\ exit_codes' = Append(exit_codes, cryptworker.exit_code)
    /\ UNCHANGED <<self_password, self_key_file, mapdev, files, links, op, args,
                   password, pw_given, cryptworker, children, calls,
                   result, retval, mapdev_before, closes>>
    /\ UNCHANGED <<failures, volume, live>>

\* loop body of unlock: write once when the prompt is found
UnlockBody ==
    /\ pc = "unlock_body"
    /\ LET found == cryptworker.prompt
           w == IF found THEN NoteFound(cryptworker) ELSE cryptworker
       IN IF found /\ pw_given = FALSE
          THEN /\ cryptworker' = WorkerWrite(w, password)
               /\ pw_given' = TRUE
          ELSE /\ cryptworker' = w
               /\ pw_given' = pw_given
    /\ pc' = "unlock_while"
    /\ UNCHANGED <<self_password, self_key_file, mapdev, files, links, op, args,
                   password, children, calls, exit_codes,
                   result, retval, mapdev_before, closes>>
    /\ UNCHANGED <<failures, volume, live>>

\* UnlockExitCode with the link check and the recording done before the
\* exit code is looked at
UnlockExitCode_RecordsFirst ==
    /\ pc = "unlock_exit"
    /\ pc' = "idle"
    /\ IF DevMapper(UnlockMountpoint(args.mountpoint).v) \in links
       THEN /\ mapdev' = MapperDev(UnlockMountpoint(args.mountpoint))
            /\ closes' = 0
       ELSE UNCHANGED <<mapdev, closes>>
    /\ IF ~(cryptworker.exit_code = 0)
       THEN /\ result' = "DiskError"
            /\ retval' = retval
       ELSE /\ result' = "return"
            /\ retval' = IF DevMapper(UnlockMountpoint(args.mountpoint).v) \in links
                         THEN mapdev' ELSE retval
    /\ UNCHANGED <<self_password, self_key_file, files, links, op, args,
                   password, pw_given, cryptworker, children, calls, exit_codes,
                   mapdev_before>>
    /\ UNCHANGED <<failures, volume, live>>

\* after the loop: DiskError on a non-zero exit, else the mapping-link check
UnlockExitCode ==
    /\ pc = "unlock_exit"
    /\ pc' = "idle"
    /\ IF ~(cryptworker.exit_code = 0)
       THEN /\ result' = "DiskError"
            /\ UNCHANGED <<mapdev, retval, closes>>
       ELSE /\ result' = "return"
            /\ IF DevMapper(UnlockMountpoint(args.mountpoint).v) \in links
               THEN /\ mapdev' = MapperDev(UnlockMountpoint(args.mountpoint))
                    /\ retval' = mapdev'
                    /\ closes' = 0
               ELSE UNCHANGED <<mapdev, retval, closes>>
    /\ UNCHANGED <<self_password, self_key_file, files, links, op, args,
                   password, pw_given, cryptworker, children, calls, exit_codes,
                   mapdev_before>>
    /\ UNCHANGED <<failures, volume, live>>

\* ------------------------------------------------------------------ close
\* arguments a caller may pass to close(): none, or the path of mapping "m"
CloseValues == {None, Str(DevMapper(<<109>>))}

\* 'if not mountpoint and self.mapdev: mountpoint = self.mapdev.path'
CloseTarget(mountpoint) ==
    IF ~Truthy(mountpoint) /\ mapdev # None
    THEN Str(DevMapper(mapdev.v))
    ELSE mountpoint

\* close(): the close command when a mapping path is known, else False;
\* 'removed' is whether the command took the link away
Close(mountpoint, removed) ==
    /\ Enter("close", [password |-> None, key_file |-> None, mountpoint |-> mountpoint])
    /\ pc' = "idle"
    /\ result' = "return"
    /\ password' = None
    /\ cryptworker' = NoWorker
    /\ closes' = IF mountpoint = None /\ closes >= 0
                 THEN (IF closes < MaxCloses THEN closes + 1 ELSE closes)
                 ELSE -1
    /\ LET target == CloseTarget(mountpoint)
       IN IF Truthy(target)
          THEN /\ calls' = <<Call("close", target.v)>>
               /\ links' = IF removed THEN links \ {target.v} ELSE links
               /\ retval' = PyBool(~(target.v \in links'))
          ELSE /\ calls' = <<>>
               /\ links' = links
               /\ retval' = PyFalse
    /\ UNCHANGED <<self_password, self_key_file, mapdev, files>>
    /\ UNCHANGED <<volume, live>>

\* ----------------------------------------------------------------- format
\* format(path): one luksErase command, DiskError on a non-zero exit
Format(code) ==
    /\ Enter("format", [password |-> None, key_file |-> None, mountpoint |-> None])
    /\ pc' = "idle"
    /\ calls' = <<Call("luksErase", <<>>)>>
    /\ result' = IF code # 0 THEN "DiskError" ELSE "return"
    /\ password' = None
    /\ cryptworker' = NoWorker
    /\ retval' = None
    /\ closes' = -1
    /\ UNCHANGED <<self_password, self_key_file, mapdev, files, links>>
    /\ UNCHANGED <<volume, live>>

\* ---------------------------------------------------------------- add_key
\* passwords a caller may pass to add_key (a str)
AddKeyPasswords == {Str(<<>>), Str(<<233>>)}

\* add_key(): OSError when the key file is missing, else launch luksAddKey
AddKeyCall(path, pw) ==
    /\ Enter("add_key", [password |-> pw, key_file |-> path, mountpoint |-> None])
    /\ IF ~Exists(path)
       THEN Raise("OSError")
       ELSE /\ password' = ToBytes(pw)
            /\ calls' = <<Call("luksAddKey", path.v)>>
            /\ cryptworker' = Spawn("add_key")
            /\ pc' = "add_key_while"
            /\ result' = "running"
    /\ retval' = None
    /\ closes' = -1
    /\ UNCHANGED <<self_password, self_key_file, mapdev, files, links>>
    /\ live' = IF ~Exists(path) THEN live ELSE live + 1
    /\ volume' = volume

\* AddKeyWhile that loops until the password is injected
AddKeyWhile_UntilInjected ==
    /\ pc = "add_key_while"
    /\ IF ~pw_given
       THEN pc' = "add_key_body" /\ exit_codes' = exit_codes
       ELSE pc' = "add_key_exit" /\ exit_codes' = Append(exit_codes, cryptworker.exit_code)
    /\ UNCHANGED <<self_password, self_key_file, mapdev, files, links, op, args,
                   password, pw_given, cryptworker, children, calls,
                   result, retval, mapdev_before, closes>>
    /\ UNCHANGED <<failures, volume, live>>

\* 'while worker.is_alive():' of add_key
AddKeyWhile ==
    /\ pc = "add_key_while"
    /\ IF cryptworker.alive
       THEN pc' = "add_key_body" /\ exit_codes' = exit_codes
       ELSE pc' = "add_key_exit" /\ exit_codes' = Append(exit_codes, cryptworker.exit_code)
    /\ UNCHANGED <<self_password, self_key_file, mapdev, files, links, op, args,
                   password, pw_given, cryptworker, children, calls,
                   result, retval, mapdev_before, closes>>
    /\ UNCHANGED <<failures, volume, live>>

\* loop body of add_key: write once when the prompt is found
AddKeyBody ==
    /\ pc = "add_key_body"
    /\ LET found == cryptworker.prompt
           w == IF found THEN NoteFound(cryptworker) ELSE cryptworker
       IN IF found /\ pw_given = FALSE
          THEN /\ cryptworker' = WorkerWrite(w, password)
               /\ pw_given' = TRUE
          ELSE /\ cryptworker' = w
               /\ pw_given' = pw_given
    /\ pc' = "add_key_while"
    /\ UNCHANGED <<self_password, self_key_file, mapdev, files, links, op, args,
                   password, children, calls, exit_codes,
                   result, retval, mapdev_before, closes>>
    /\ UNCHANGED <<failures, volume, live>>

\* after the loop: DiskError on a non-zero exit, else True
AddKeyExitCode ==
    /\ pc = "add_key_exit"
    /\ pc' = "idle"
    /\ result' = IF cryptworker.exit_code # 0 THEN "DiskError" ELSE "return"
    /\ retval' = IF cryptworker.exit_code # 0 THEN None ELSE PyTrue
    /\ UNCHANGED <<self_password, self_key_file, mapdev, files, links, op, args,
                   password, pw_given, cryptworker, children, calls, exit_codes,
                   mapdev_before, closes>>
    /\ UNCHANGED <<failures, volume, live>>

\* ------------------------------------------------------ external process
\* the process prints its passphrase prompt
WorkerPrompt ==
    /\ cryptworker.alive
    /\ ~cryptworker.prompt
    /\ cryptworker' = [cryptworker EXCEPT !.prompt = TRUE]
    /\ UNCHANGED <<self_password, self_key_file, mapdev, files, links, pc, op,
                   args, password, pw_given, children, calls, exit_codes,
                   result, retval, mapdev_before, closes>>
    /\ UNCHANGED <<failures, volume, live>>

\* the process exits; a successful 'open' may leave the mapping link behind
WorkerExit(code, linked) ==
    /\ cryptworker.alive
    /\ cryptworker' = [cryptworker EXCEPT !.alive = FALSE, !.exit_code = code]
    /\ links' = IF cryptworker.kind = "open" /\ code = 0 /\ linked
                THEN links \cup {DevMapper(args.mountpoint.v)}
                ELSE links
    /\ UNCHANGED <<self_password, self_key_file, mapdev, files, pc, op,
                   args, password, pw_given, children, calls, exit_codes,
                   result, retval, mapdev_before, closes>>
    /\ live' = live - 1
    /\ UNCHANGED <<failures, volume>>

\* a cryptsetup that does its work: once it has read a line of input,
\* luksFormat formats the device with it and exits with zero; open exits with
\* zero and creates the mapping link when the line is the passphrase the
\* device was formatted with, and exits non-zero otherwise
ToolExit ==
    /\ cryptworker.alive
    /\ cryptworker.kind \in {"format1", "open"}
    /\ cryptworker.written # <<>>
    /\ LET key == cryptworker.written[1]
           ok == \/ cryptworker.kind = "format1"
                 \/ (volume # None /\ key = volume)
       IN /\ cryptworker' = [cryptworker EXCEPT !.alive = FALSE,
                                                !.exit_code = IF ok THEN 0 ELSE 1]
          /\ volume' = IF cryptworker.kind = "format1" THEN key ELSE volume
          /\ links' = IF cryptworker.kind = "open" /\ ok
                      THEN links \cup {DevMapper(args.mountpoint.v)}
                      ELSE links
    /\ live' = live - 1
    /\ UNCHANGED <<self_password, self_key_file, mapdev, files, pc, op,
                   args, password, pw_given, children, calls, exit_codes,
                   result, retval, mapdev_before, closes, failures>>

\* ---------------------------------------------------------- specifications
\* Spec: the session protocol. Every operation, every exit code, every child
\* topology and both mapping names; the credentials come from a session with
\* a key file and possibly a password, called with or without a password.
\* The teardown commands of the recovery all exit with zero.
SessionPasswords == {None, Bytes(<<112, LF>>)}
SessionKeyFiles == {KeyPresent}
CallPasswords == {None, Str(<<233>>)}
CallKeyFiles == {None, KeyMissing}

Init == InitWith(SessionPasswords, SessionKeyFiles)

Next ==
    \/ \E pw \in CallPasswords, kf \in CallKeyFiles : EncryptCall(pw, kf)
    \/ EncryptWhile1
    \/ EncryptBody1
    \/ \E cs \in ChildLists : EncryptExitCode(cs, {})
    \/ EncryptWhile2
    \/ EncryptBody2
    \/ \E m \in MountpointValues, pw \in CallPasswords, kf \in CallKeyFiles :
          UnlockCall(m, pw, kf)
    \/ UnlockWhile
    \/ UnlockBody
    \/ UnlockExitCode
    \/ \E m \in CloseValues, removed \in BOOLEAN : Close(m, removed)
    \/ \E code \in ExitCodes : Format(code)
    \/ \E path \in {KeyPresent, KeyMissing}, pw \in AddKeyPasswords : AddKeyCall(path, pw)
    \/ AddKeyWhile
    \/ AddKeyBody
    \/ AddKeyExitCode
    \/ WorkerPrompt
    \/ \E code \in ExitCodes, linked \in BOOLEAN : WorkerExit(code, linked)

Spec == Init /\ [][Next]_vars

\* SpecCred: credential resolution. encrypt and unlock over every combination
\* of explicit password, instance password, explicit and instance key file;
\* the device has no children and there is one mapping name.
InitCred == InitWith(PasswordValues, KeyFileValues)

NextCred ==
    \/ \E pw \in PasswordValues, kf \in KeyFileValues : EncryptCall(pw, kf)
    \/ EncryptWhile1
    \/ EncryptBody1
    \/ EncryptExitCode(<<>>, {})
    \/ EncryptWhile2
    \/ EncryptBody2
    \/ \E pw \in PasswordValues, kf \in KeyFileValues :
          UnlockCall(Str(<<109>>), pw, kf)
    \/ UnlockWhile
    \/ UnlockBody
    \/ UnlockExitCode
    \/ WorkerPrompt
    \/ \E code \in ExitCodes : WorkerExit(code, TRUE)

SpecCred == InitCred /\ [][NextCred]_vars

\* SpecRecovery: encrypt and its busy recovery. Every child topology and
\* every set of teardown commands that fail; one credential.
InitRecovery == InitWith({Bytes(<<112, LF>>)}, {KeyPresent})

NextRecovery ==
    \/ EncryptCall(None, None)
    \/ EncryptWhile1
    \/ EncryptBody1
    \/ \E cs \in ChildLists : \E fs \in TeardownFailures(cs) : EncryptExitCode(cs, fs)
    \/ EncryptWhile2
    \/ EncryptBody2
    \/ WorkerPrompt
    \/ \E code \in ExitCodes : WorkerExit(code, FALSE)

SpecRecovery == InitRecovery /\ [][NextRecovery]_vars

\* SpecTool: encrypt and unlock against a cryptsetup that does its work
\* (ToolExit); the credentials of Spec, both mapping names.
InitTool == InitWith(SessionPasswords, SessionKeyFiles)

NextTool ==
    \/ \E pw \in CallPasswords : EncryptCall(pw, None)
    \/ EncryptWhile1
    \/ EncryptBody1
    \/ EncryptExitCode(<<>>, {})
    \/ \E m \in MountpointValues, pw \in CallPasswords : UnlockCall(m, pw, None)
    \/ UnlockWhile
    \/ UnlockBody
    \/ UnlockExitCode
    \/ WorkerPrompt
    \/ ToolExit

SpecTool == InitTool /\ [][NextTool]_vars

\* SpecLive: the three polling operations with a caller thread that keeps
\* running and processes that exit in the end, at any moment and with any
\* exit code; one credential, every child topology.
CallerStep ==
    \/ EncryptWhile1
    \/ EncryptBody1
    \/ \E cs \in ChildLists : EncryptExitCode(cs, {})
    \/ EncryptWhile2
    \/ EncryptBody2
    \/ UnlockWhile
    \/ UnlockBody
    \/ UnlockExitCode
    \/ AddKeyWhile
    \/ AddKeyBody
    \/ AddKeyExitCode

ProcessExits == \E code \in ExitCodes, linked \in BOOLEAN : WorkerExit(code, linked)

NextLive ==
    \/ EncryptCall(None, None)
    \/ UnlockCall(Str(<<109>>), None, None)
    \/ AddKeyCall(KeyPresent, Str(<<233>>))
    \/ CallerStep
    \/ WorkerPrompt
    \/ ProcessExits

SpecLive ==
    /\ InitRecovery
    /\ [][NextLive]_vars
    /\ WF_vars(CallerStep)
    /\ WF_vars(ProcessExits)

\* ------------------------------------------------------------- properties
Launches(cmd) == Cardinality({ i \in DOMAIN calls : calls[i].cmd = cmd })
Finished(name) == pc = "idle" /\ op = name

\* C1: in the loops of encrypt (first attempt), unlock and add_key the
\* credential is written at most once, and exactly once as soon as some poll
\* has found the prompt, however many polls find it afterwards; what is
\* written is the resolved credential.
C1_OneShotLatch ==
    cryptworker.kind \in {"format1", "open", "add_key"} =>
        /\ Len(cryptworker.written) = (IF cryptworker.found_polls > 0 THEN 1 ELSE 0)
        /\ \A i \in DOMAIN cryptworker.written : cryptworker.written[i] = password

\* the prompt was found on several polls of one process and one write was made
C1_Witness ==
    /\ cryptworker.kind \in {"format1", "open", "add_key"}
    /\ cryptworker.found_polls >= 2
    /\ Len(cryptworker.written) = 1

\* C2: when the first format run exits busy and the retried run exits
\* non-zero, encrypt ends in a DiskError and not in a return.
C2_FailedRecoveryIsFatal ==
    (/\ Finished("encrypt")
     /\ Len(exit_codes) = 2
     /\ exit_codes[1] = BusyExitCode
     /\ exit_codes[2] # 0)
    => result = "DiskError"

\* C3: when the first format run exits busy and the second exits zero,
\* encrypt has launched luksFormat exactly twice and returns True.
C3_ExactlyOneRetry ==
    (Finished("encrypt") /\ exit_codes = <<BusyExitCode, 0>>)
    => /\ result = "return"
       /\ retval = PyTrue
       /\ Launches("luksFormat") = 2

\* a busy first run followed by a successful retry over a device with children
C3_Witness ==
    /\ Finished("encrypt")
    /\ exit_codes = <<BusyExitCode, 0>>
    /\ children # <<>>
    /\ result = "return"

\* C4: in the retried format run no write is made on a poll at which the
\* prompt has not appeared in the process's output.
C4_RetryWritesAfterPrompt ==
    cryptworker.kind = "format2" => ~cryptworker.wrote_unprompted

\* C5 as stated: a child with a mountpoint gets an umount and a close, a
\* child without one gets neither.
C5_ChildTeardownAsStated ==
    cryptworker.kind = "format2" =>
        \A i \in DOMAIN children :
            IF Truthy(children[i].mountpoint)
            THEN /\ Call("umount", children[i].mountpoint.v) \in Range(calls)
                 /\ Call("close", children[i].name) \in Range(calls)
            ELSE Call("close", children[i].name) \notin Range(calls)

\* C5 amended: a child with a mountpoint gets an umount and a close; a child
\* without a mountpoint gets no umount but still gets a close. No other
\* umount or close is issued.
C5_ChildTeardown ==
    cryptworker.kind = "format2" =>
        /\ \A i \in DOMAIN children :
              /\ Call("close", children[i].name) \in Range(calls)
              /\ Truthy(children[i].mountpoint)
                    => Call("umount", children[i].mountpoint.v) \in Range(calls)
        /\ Launches("close") = Len(children)
        /\ Launches("umount") =
              Cardinality({ i \in DOMAIN children : Truthy(children[i].mountpoint) })

\* the recovery ran over a device with a mounted and an unmounted child
C5_Witness ==
    /\ cryptworker.kind = "format2"
    /\ \E i, j \in DOMAIN children :
          /\ Truthy(children[i].mountpoint)
          /\ ~Truthy(children[j].mountpoint)

\* C6: after a close() that issued the close command on a session that held
\* a MappedDevice, self.mapdev is None.
C6_CloseClearsMapdev ==
    (Finished("close") /\ mapdev_before # None /\ calls # <<>>) => mapdev = None

\* C7: the second of two no-argument close() calls after a successful
\* unlock issues no command and returns False.
C7_CloseIdempotent ==
    (Finished("close") /\ closes >= 2)
    => /\ result = "return"
       /\ retval = PyFalse
       /\ calls = <<>>

\* C8: when the open process exits non-zero, unlock raises DiskError,
\* returns nothing and leaves self.mapdev as it was before the call.
C8_UnlockFailure ==
    (Finished("unlock") /\ exit_codes # <<>> /\ exit_codes[1] # 0)
    => /\ result = "DiskError"
       /\ retval = None
       /\ mapdev = mapdev_before

\* a failed unlock on a session that held a MappedDevice, whose own mapping
\* link is present
C8_Witness ==
    /\ Finished("unlock")
    /\ exit_codes # <<>> /\ exit_codes[1] # 0
    /\ mapdev_before # None
    /\ mapdev_before # MapperDev(args.mountpoint)
    /\ DevMapper(args.mountpoint.v) \in links

\* no usable credential: no password given to the call or held by the
\* session, and no key file that exists
NoCredential ==
    /\ ~Truthy(args.password)
    /\ ~Truthy(self_password)
    /\ ~Exists(args.key_file)
    /\ ~Exists(self_key_file)

\* C9: without a password of either kind and without an existing key file,
\* encrypt and unlock raise the missing-credential error with no command
\* issued: no partprobe, no process.
C9_MissingCredentialRaises ==
    (op \in {"encrypt", "unlock"} /\ NoCredential)
    => /\ result = "AssertionError"
       /\ calls = <<>>
       /\ cryptworker = NoWorker

\* the credential of the resolution order: explicit password, else instance
\* password, else the key file's contents without trailing CR/LF
ExpectedCredential ==
    IF Truthy(args.password) THEN ToBytes(args.password)
    ELSE IF Truthy(self_password) THEN ToBytes(self_password)
    ELSE Bytes(RStrip(files))

\* C10: whatever encrypt or unlock writes to the process is the explicit
\* password if supplied, else the instance password if set, else the key
\* file's stripped contents.
C10_CredentialOrder ==
    op \in {"encrypt", "unlock"} =>
        \A i \in DOMAIN cryptworker.written :
            cryptworker.written[i] = ExpectedCredential


\* C11: the mapping name that unlock puts into the open command, and checks
\* the mapping link for, holds no path separator.
C11_MountpointSanitized ==
    op = "unlock" =>
        \A i \in DOMAIN calls :
            calls[i].cmd = "open" => SLASH \notin Range(calls[i].arg)

\* the child loop has run over a device whose children cs had the teardown
\* commands fs fail
Recovered == cryptworker.kind = "format2"

C14_OtherFailureIsFatal ==
    (Finished("encrypt") /\ exit_codes # <<>>
        /\ exit_codes[1] # 0 /\ exit_codes[1] # BusyExitCode)
    => /\ result = "DiskError"
       /\ calls = <<Call("partprobe", <<>>), Call("luksFormat", <<>>)>>
       /\ exit_codes = <<exit_codes[1]>>
       /\ children = <<>>
       /\ cryptworker.kind = "format1"

\* encrypt ended after a first run that failed with another code
C14_Witness ==
    /\ Finished("encrypt")
    /\ exit_codes = <<1>>
    /\ result = "DiskError"

\* C15: when the open process exits with zero, unlock returns without error;
\* without the mapping link it returns None and self.mapdev stays as it was,
\* with the link it records and returns the MappedDevice of the mapping name.
C15_LinkCheck ==
    (Finished("unlock") /\ exit_codes = <<0>>)
    => /\ result = "return"
       /\ IF DevMapper(args.mountpoint.v) \in links
          THEN /\ mapdev = [t |-> "MapperDev", v |-> args.mountpoint.v]
               /\ retval = mapdev
          ELSE /\ retval = None
               /\ mapdev = mapdev_before

\* an open that exited with zero and left no link behind
C15_Witness ==
    /\ Finished("unlock")
    /\ exit_codes = <<0>>
    /\ DevMapper(args.mountpoint.v) \notin links
    /\ retval = None

\* position of the only call of a command in the log, 0 when it is absent
Position(cmd) ==
    IF \E i \in DOMAIN calls : calls[i].cmd = cmd
    THEN CHOOSE i \in DOMAIN calls : calls[i].cmd = cmd
    ELSE 0

\* C17: the recovery runs after the first format process was seen to exit
\* with the busy code, and in this order: unmount of the device, rescan,
\* topology query, every child teardown command, relaunch of the format
\* command.
C17_RecoveryOrder ==
    (op = "encrypt" /\ \E i \in DOMAIN calls :
                          calls[i].cmd \in {"unmount", "lsblk", "umount", "close"})
    => /\ exit_codes # <<>> /\ exit_codes[1] = BusyExitCode
       /\ Launches("unmount") = 1 /\ Launches("lsblk") = 1
       /\ Launches("partprobe") = 2 /\ Launches("luksFormat") = 2
       /\ calls[1].cmd = "partprobe" /\ calls[2].cmd = "luksFormat"
       /\ Position("unmount") = 3
       /\ calls[4].cmd = "partprobe"
       /\ Position("lsblk") = 5
       /\ \A i \in DOMAIN calls :
             calls[i].cmd \in {"umount", "close"} => (5 < i /\ i < Len(calls))
       /\ calls[Len(calls)].cmd = "luksFormat"

\* a recovery over a device with a mounted child
C17_Witness ==
    /\ Recovered
    /\ Launches("umount") > 0

\* C18: an encrypt that launched the format command ran a rescan before the
\* launch and another one after the format process had exited.
C18_RescanBeforeAndAfter ==
    (Finished("encrypt") /\ Launches("luksFormat") > 0)
    => \E i, j, k \in DOMAIN calls :
          /\ i < j /\ j < k
          /\ calls[i].cmd = "partprobe"
          /\ calls[j].cmd = "luksFormat"
          /\ calls[k].cmd = "partprobe"

\* C20: the credential is never written to a process that has exited.
C20_NoWriteAfterExit == ~cryptworker.wrote_dead

\* C13: against a cryptsetup that does its work, an unlock whose credential
\* is the one the device was formatted with by encrypt returns, and returns
\* and records the MappedDevice named by the mapping name alone, whose link
\* /dev/mapper/<name> exists.
C13_EncryptThenUnlock ==
    (Finished("unlock") /\ volume # None /\ password = volume)
    => /\ result = "return"
       /\ retval.t = "MapperDev"
       /\ retval.v = args.mountpoint.v
       /\ mapdev = retval
       /\ DevMapper(args.mountpoint.v) \in links

\* encrypt formatted the device and an unlock with the same credential ended
C13_Witness ==
    /\ Finished("unlock")
    /\ volume # None
    /\ password = volume
    /\ result = "return"

\* C16: at most one process of the session is running, it is the one the
\* caller polls, and none is running when no call is in progress.
C16_OneProcess ==
    /\ live \in {0, 1}
    /\ live = 1 => cryptworker.alive
    /\ pc = "idle" => live = 0
    /\ Recovered => Len(exit_codes) >= 1

\* the relaunched format process is running after the first one exited
C16_Witness ==
    /\ Recovered
    /\ cryptworker.alive
    /\ live = 1

\* C19: with a caller that keeps running and processes that exit in the
\* end, every call of encrypt, unlock and add_key returns or raises, and no
\* polling loop is left while its process is running.
C19_CallsTerminate ==
    /\ (pc # "idle") ~> (pc = "idle")
    /\ [](pc \in {"idle", "encrypt_exit1", "unlock_exit", "add_key_exit"}
            => ~cryptworker.alive)

\* an encrypt that went through both polling loops has returned
C19_Witness ==
    /\ Finished("encrypt")
    /\ Len(exit_codes) = 2
    /\ result = "return"

====
